---------------------------- MODULE Spec2Model ----------------------------
(***************************************************************************)
(* Model of sombra-rs, src/windows/sombra_imp.rs: SombraWindows::build,    *)
(* ::create and ::delete, running against the Windows service control      *)
(* manager (SCM).  Every platform request of create and delete is one      *)
(* step of the calling thread, so that the platform's own transitions (a   *)
(* stop that settles late) and a second caller can fall between them.      *)
(*                                                                         *)
(* The SCM is the external collaborator the code calls into.  Its          *)
(* primitives are modelled at the call sites, with the behaviour the       *)
(* platform documents: CreateService refuses a name that is in the         *)
(* database, ControlService(STOP) only moves a running service to          *)
(* StopPending, DeleteService marks the entry, and the entry leaves the    *)
(* database once it is marked, stopped and no handle to it is open.        *)
(* Any request may also fail for a reason outside the program (manager     *)
(* unreachable, access denied): the Fault steps.                           *)
(***************************************************************************)
EXTENDS Naturals, Sequences, FiniteSets, TLC

VARIABLES
    reg,      \* the SCM database: service name -> entry, or NoEntry
    env,      \* process-wide SOMBRA_WINDOWS_SERVICE_PATH
    pc,       \* per thread: position in create/delete
    op,       \* per thread: "create", "delete" or "none"
    self,     \* per thread: the SombraWindows value the call runs on
    mgr,      \* per thread: a ServiceManager handle is open
    hsvc,     \* per thread: number of open Service handles (all on self's name)
    helper,   \* per thread: local service_binary_path of create
    status,   \* per thread: local service_status.current_state of delete
    result,   \* per thread: what the call returns
    reqs,     \* per thread: the platform requests the call has issued, in order
    fault,    \* per thread: a request of the call failed for an external reason
    pre,      \* per thread: what self's name had in the database when the call began
    after,    \* per thread: last and cycles of self's name when the call began
    last,     \* per name: how the latest completed call on it ended
    cycles,   \* per name: create/delete pairs that succeeded in a row, up to MaxCycles
    built     \* per thread: the latest build call, its arguments and what it returned

vars == <<reg, env, pc, op, self, mgr, hsvc, helper, status, result, reqs,
          fault, pre, after, last, cycles, built>>

(* ------------------------------ bounds --------------------------------- *)

\* successive create/delete cycles on one name that are told apart
MaxCycles == 2

(* ------------------------------ values --------------------------------- *)

Threads == {"t1", "t2"}

Names == {"tcp_echo30222", "tcp_echo30223"}

\* what the file system holds, relative to the working directory
Files == {"executables/tcp_echo.exe",
          "executables/sombra-windows-service.exe",
          "custom/helper.exe"}

\* the path arguments tried with build
RawPaths == {"executables/tcp_echo.exe", "missing.exe"}

\* the path arguments tried with build when it is checked on its own
BuildPaths == RawPaths \cup {"custom/helper.exe", "nowhere/helper.exe", ""}

ArgLists == {<<>>, <<"-p", "30223">>}

NoEntry == [absent |-> TRUE]

Unset == "<unset>"

NotUnicode == "<not-unicode>"

DefaultHelper == "executables/sombra-windows-service.exe"

\* the values the caller's environment may give the variable
EnvValues == {Unset, NotUnicode, "custom/helper.exe", "nowhere/helper.exe"}

Cwd == "C:/sombra/"

(* ------------------------- pure functions ------------------------------ *)

\* dunce::canonicalize: the absolute path of an existing file, or an error
canonicalize(p) ==
    IF p \in Files THEN [ok |-> TRUE, val |-> Cwd \o p]
    ELSE [ok |-> FALSE, val |-> p]

\* crate::Error::new(ErrorKind::kind, ..).content(content)
sombra_error(kind, content) == [kind |-> kind, content |-> content]

\* build without the lookup: the path is taken as it was given
build_unchecked(name, path, args) ==
    [ok |-> TRUE,
     val |-> [process_path |-> path, process_name |-> name, process_args |-> args]]

\* SombraWindows::build
build(name, path, args) ==
    LET c == canonicalize(path) IN
    IF ~c.ok THEN [ok |-> FALSE, err |-> sombra_error("Io", path)]
    ELSE [ok |-> TRUE,
          val |-> [process_path |-> c.val,
                   process_name |-> name,
                   process_args |-> args]]

\* every SombraWindows value build can return
Descriptors ==
    {build(n, p, a).val : <<n, p, a>> \in
        {x \in Names \X RawPaths \X ArgLists : build(x[1], x[2], x[3]).ok}}

\* std::env::var
env_var(e) ==
    IF e = Unset THEN [ok |-> FALSE, err |-> "NotPresent"]
    ELSE IF e = NotUnicode THEN [ok |-> FALSE, err |-> "NotUnicode"]
    ELSE [ok |-> TRUE, val |-> e]

\* the ServiceInfo create registers
service_info(d, binary) ==
    [name |-> d.process_name,
     display_name |-> d.process_name,
     start_type |-> "OnDemand",
     executable_path |-> binary,
     launch_arguments |-> <<>>]

\* start_args without the target path in front
start_args_bare(d) == d.process_args

\* the argument vector create starts the service with
start_args(d) == <<d.process_path>> \o d.process_args

description(d) == "Sombra Service Wrapper on " \o d.process_name

(* --------------------------- the platform ------------------------------ *)

\* open Service handles on name n, over all threads (h: per-thread counts)
Handles(h, slf, n) ==
    LET owners == {t \in Threads : slf[t].process_name = n}
        count[S \in SUBSET owners] ==
            IF S = {} THEN 0
            ELSE LET t == CHOOSE x \in S : TRUE IN h[t] + count[S \ {t}]
    IN count[owners]

\* the SCM drops an entry that is marked for deletion once the service is
\* stopped and the last handle to it is closed
Reap(r, h, slf) ==
    [n \in Names |->
        IF r[n] # NoEntry /\ r[n].marked /\ r[n].state = "Stopped"
           /\ Handles(h, slf, n) = 0
        THEN NoEntry ELSE r[n]]

\* CreateService: a new entry, stopped; refused when the name is in the database
ScmCreateService(r, info) ==
    IF r[info.name] = NoEntry
    THEN [ok |-> TRUE,
          reg |-> [r EXCEPT ![info.name] =
                     [info |-> info, descr |-> "", state |-> "Stopped",
                      marked |-> FALSE, args |-> <<>>]]]
    ELSE [ok |-> FALSE, reg |-> r]

\* ChangeServiceConfig2(SERVICE_CONFIG_DESCRIPTION)
ScmSetDescription(r, n, text) ==
    IF r[n] # NoEntry /\ ~r[n].marked
    THEN [ok |-> TRUE, reg |-> [r EXCEPT ![n].descr = text]]
    ELSE [ok |-> FALSE, reg |-> r]

\* OpenService: a handle to an entry of the database
ScmOpenService(r, n) == [ok |-> r[n] # NoEntry, reg |-> r]

\* StartService: a stopped service, not marked for deletion, starts running
ScmStart(r, n, args) ==
    IF r[n] # NoEntry /\ r[n].state = "Stopped" /\ ~r[n].marked
    THEN [ok |-> TRUE,
          reg |-> [r EXCEPT ![n].state = "Running", ![n].args = args]]
    ELSE [ok |-> FALSE, reg |-> r]

\* QueryServiceStatus
ScmQueryStatus(r, n) == r[n].state

\* ControlService(STOP): a running service is told to stop and is
\* StopPending until it has stopped; any other state refuses the control
ScmStop(r, n) ==
    IF r[n] # NoEntry /\ r[n].state = "Running"
    THEN [ok |-> TRUE, reg |-> [r EXCEPT ![n].state = "StopPending"]]
    ELSE [ok |-> FALSE, reg |-> r]

\* DeleteService: marks the entry; refused when it is marked already
ScmDelete(r, n) ==
    IF r[n] # NoEntry /\ ~r[n].marked
    THEN [ok |-> TRUE, reg |-> [r EXCEPT ![n].marked = TRUE]]
    ELSE [ok |-> FALSE, reg |-> r]

Req(rq, ok, args) == [rq |-> rq, ok |-> ok, args |-> args]

Ok == [ok |-> TRUE]

Err(kind, content) == [ok |-> FALSE, err |-> sombra_error(kind, content)]

None == [none |-> TRUE]

(* ------------------------------ Init ----------------------------------- *)

\* what a caller can observe of an entry: present, state, marked for deletion
Seen(e) ==
    IF e = NoEntry THEN [registered |-> FALSE, state |-> "none", marked |-> FALSE]
    ELSE [registered |-> TRUE, state |-> e.state, marked |-> e.marked]

NoDesc == [process_path |-> "", process_name |-> "", process_args |-> <<>>]

Init ==
    /\ reg = [n \in Names |-> NoEntry]
    /\ env \in EnvValues
    /\ pc = [t \in Threads |-> "idle"]
    /\ op = [t \in Threads |-> "none"]
    /\ self = [t \in Threads |-> NoDesc]
    /\ mgr = [t \in Threads |-> FALSE]
    /\ hsvc = [t \in Threads |-> 0]
    /\ helper = [t \in Threads |-> ""]
    /\ status = [t \in Threads |-> "none"]
    /\ result = [t \in Threads |-> None]
    /\ reqs = [t \in Threads |-> <<>>]
    /\ fault = [t \in Threads |-> FALSE]
    /\ pre = [t \in Threads |-> Seen(NoEntry)]
    /\ after = [t \in Threads |-> [last |-> "other", cycles |-> 0]]
    /\ last = [n \in Names |-> "other"]
    /\ cycles = [n \in Names |-> 0]
    /\ built = [t \in Threads |-> None]

(* --------------------------- call and return --------------------------- *)

\* Name with one service name written into the code
Name_fixed(t) == "tcp_echo30222"

Name(t) == self[t].process_name

\* the caller invokes o ("create" or "delete") on the descriptor d
Call(t, o, d) ==
    /\ pc[t] \in {"idle", "done"}
    /\ pc' = [pc EXCEPT ![t] = IF o = "create" THEN "c_connect" ELSE "d_connect"]
    /\ op' = [op EXCEPT ![t] = o]
    /\ self' = [self EXCEPT ![t] = d]
    /\ helper' = [helper EXCEPT ![t] = ""]
    /\ status' = [status EXCEPT ![t] = "none"]
    /\ result' = [result EXCEPT ![t] = None]
    /\ reqs' = [reqs EXCEPT ![t] = <<>>]
    /\ fault' = [fault EXCEPT ![t] = FALSE]
    /\ pre' = [pre EXCEPT ![t] = Seen(reg[d.process_name])]
    /\ after' = [after EXCEPT ![t] = [last |-> last[d.process_name],
                                      cycles |-> cycles[d.process_name]]]
    /\ UNCHANGED <<reg, env, mgr, hsvc, last, cycles, built>>

\* the request rq is among those the call of t has issued, and succeeded
Served(t, rq) == \E i \in 1..Len(reqs[t]) : reqs[t][i].rq = rq /\ reqs[t][i].ok

Issued(t, rq) == \E i \in 1..Len(reqs[t]) : reqs[t][i].rq = rq

\* a request answered with an error: the ? operator returns it; the handles
\* are dropped at the return
Raise(t, rq, kind, content, external) ==
    /\ reqs' = [reqs EXCEPT ![t] = Append(@, Req(rq, FALSE, <<>>))]
    /\ result' = [result EXCEPT ![t] = Err(kind, content)]
    /\ fault' = [fault EXCEPT ![t] = @ \/ external]
    /\ pc' = [pc EXCEPT ![t] = "ret"]

\* Fault with the registration of a failed create taken back
Fault_rollback(t, at, rq) ==
    /\ pc[t] = at
    /\ Raise(t, rq, "Platform", "", TRUE)
    /\ reg' = IF at \in {"c_descr", "c_open", "c_start"}
              THEN [reg EXCEPT ![self[t].process_name] = NoEntry]
              ELSE reg
    /\ UNCHANGED <<env, op, self, mgr, hsvc, helper, status, pre, after, last,
                   cycles, built>>

\* Fault with the stop of a failed delete undone: the service is started again
Fault_restart(t, at, rq) ==
    /\ pc[t] = at
    /\ Raise(t, rq, "Platform", "", TRUE)
    /\ reg' = IF at = "d_delete" /\ Served(t, "stop")
              THEN [reg EXCEPT ![self[t].process_name].state = "Running"]
              ELSE reg
    /\ UNCHANGED <<env, op, self, mgr, hsvc, helper, status, pre, after, last,
                   cycles, built>>

\* Fault with the failed request tried again instead of returned
Fault_retry(t, at, rq) ==
    /\ pc[t] = at
    /\ ~Issued(t, rq)
    /\ reqs' = [reqs EXCEPT ![t] = Append(@, Req(rq, FALSE, <<>>))]
    /\ fault' = [fault EXCEPT ![t] = TRUE]
    /\ UNCHANGED <<reg, env, pc, op, self, mgr, hsvc, helper, status, result, pre,
                   after, last, cycles, built>>

\* a request of the call fails for a reason outside the program
Fault(t, at, rq) ==
    /\ pc[t] = at
    /\ Raise(t, rq, "Platform", "", TRUE)
    /\ UNCHANGED <<reg, env, op, self, mgr, hsvc, helper, status, pre, after, last, cycles, built>>

\* how the call of t ended, for the record of its name
Outcome(t) ==
    IF op[t] = "create"
    THEN IF result[t].ok THEN "create_ok"
         ELSE IF Served(t, "create_service") THEN "create_partial"
         ELSE "other"
    ELSE IF result[t].ok THEN "delete_ok" ELSE "other"

Min(a, b) == IF a < b THEN a ELSE b

\* Return with the Service handles never closed: the platform reaps nothing
Return_forget(t) ==
    /\ pc[t] = "ret"
    /\ pc' = [pc EXCEPT ![t] = "done"]
    /\ mgr' = [mgr EXCEPT ![t] = FALSE]
    /\ hsvc' = [hsvc EXCEPT ![t] = 0]
    /\ helper' = [helper EXCEPT ![t] = ""]
    /\ status' = [status EXCEPT ![t] = "none"]
    /\ last' = [last EXCEPT ![Name(t)] = Outcome(t)]
    /\ cycles' = [cycles EXCEPT ![Name(t)] =
                     IF Outcome(t) = "create_ok" THEN @
                     ELSE IF Outcome(t) = "delete_ok" /\ last[Name(t)] = "create_ok"
                     THEN Min(@ + 1, MaxCycles)
                     ELSE 0]
    /\ UNCHANGED <<reg, env, op, self, result, reqs, fault, pre, after, built>>

\* Return on an error exit that keeps the handles of the call open
Return_leak(t) ==
    /\ pc[t] = "ret"
    /\ pc' = [pc EXCEPT ![t] = "done"]
    /\ mgr' = [mgr EXCEPT ![t] = IF result[t].ok THEN FALSE ELSE @]
    /\ hsvc' = [hsvc EXCEPT ![t] = IF result[t].ok THEN 0 ELSE @]
    /\ reg' = Reap(reg, hsvc', self)
    /\ helper' = [helper EXCEPT ![t] = ""]
    /\ status' = [status EXCEPT ![t] = "none"]
    /\ last' = [last EXCEPT ![Name(t)] = Outcome(t)]
    /\ cycles' = [cycles EXCEPT ![Name(t)] =
                     IF Outcome(t) = "create_ok" THEN @
                     ELSE IF Outcome(t) = "delete_ok" /\ last[Name(t)] = "create_ok"
                     THEN Min(@ + 1, MaxCycles)
                     ELSE 0]
    /\ UNCHANGED <<env, op, self, result, reqs, fault, pre, after, built>>

\* the call returns: its ServiceManager and Service values are dropped
Return(t) ==
    /\ pc[t] = "ret"
    /\ pc' = [pc EXCEPT ![t] = "done"]
    /\ mgr' = [mgr EXCEPT ![t] = FALSE]
    /\ hsvc' = [hsvc EXCEPT ![t] = 0]
    /\ reg' = Reap(reg, hsvc', self)
    /\ helper' = [helper EXCEPT ![t] = ""]
    /\ status' = [status EXCEPT ![t] = "none"]
    /\ last' = [last EXCEPT ![Name(t)] = Outcome(t)]
    /\ cycles' = [cycles EXCEPT ![Name(t)] =
                     IF Outcome(t) = "create_ok" THEN @
                     ELSE IF Outcome(t) = "delete_ok" /\ last[Name(t)] = "create_ok"
                     THEN Min(@ + 1, MaxCycles)
                     ELSE 0]
    /\ UNCHANGED <<env, op, self, result, reqs, fault, pre, after, built>>

\* a request answered with success
Done(t, rq, args, next) ==
    /\ reqs' = [reqs EXCEPT ![t] = Append(@, Req(rq, TRUE, args))]
    /\ pc' = [pc EXCEPT ![t] = next]

(* ------------------------- SombraWindows::create ----------------------- *)

\* ServiceManager::local_computer(None, CONNECT | CREATE_SERVICE)?
c_connect(t) ==
    /\ pc[t] = "c_connect"
    /\ Done(t, "connect", <<>>, "c_env")
    /\ mgr' = [mgr EXCEPT ![t] = TRUE]
    /\ UNCHANGED <<reg, env, op, self, hsvc, helper, status, result, fault,
                   pre, after, last, cycles, built>>

\* if env::var(..).is_err() { env::set_var(.., "executables/...") }
c_env(t) ==
    /\ pc[t] = "c_env"
    /\ env' = IF ~env_var(env).ok THEN DefaultHelper ELSE env
    /\ pc' = [pc EXCEPT ![t] = "c_resolve"]
    /\ UNCHANGED <<reg, op, self, mgr, hsvc, helper, status, result, reqs,
                   fault, pre, after, last, cycles, built>>

\* c_resolve going on with the unresolved location when it does not resolve
c_resolve_lenient(t) ==
    /\ pc[t] = "c_resolve"
    /\ LET v == env_var(env)
       IN IF ~v.ok
          THEN /\ result' = [result EXCEPT ![t] = Err("Config", v.err)]
               /\ pc' = [pc EXCEPT ![t] = "ret"]
               /\ UNCHANGED helper
          ELSE /\ helper' = [helper EXCEPT ![t] = canonicalize(v.val).val]
               /\ pc' = [pc EXCEPT ![t] = "c_register"]
               /\ UNCHANGED result
    /\ UNCHANGED <<reg, env, op, self, mgr, hsvc, status, reqs, fault, pre,
                   after, last, cycles, built>>

\* let sombra_win_service = env::var(..)?;
\* let service_binary_path = dunce::canonicalize(&sombra_win_service).map_err(..)?;
c_resolve(t) ==
    /\ pc[t] = "c_resolve"
    /\ LET v == env_var(env)
           c == canonicalize(v.val)
       IN IF ~v.ok
          THEN /\ result' = [result EXCEPT ![t] = Err("Config", v.err)]
               /\ pc' = [pc EXCEPT ![t] = "ret"]
               /\ UNCHANGED helper
          ELSE IF ~c.ok
          THEN /\ result' = [result EXCEPT ![t] = Err("Io", v.val)]
               /\ pc' = [pc EXCEPT ![t] = "ret"]
               /\ UNCHANGED helper
          ELSE /\ helper' = [helper EXCEPT ![t] = c.val]
               /\ pc' = [pc EXCEPT ![t] = "c_register"]
               /\ UNCHANGED result
    /\ UNCHANGED <<reg, env, op, self, mgr, hsvc, status, reqs, fault, pre,
                   after, last, cycles, built>>

\* c_register taking an entry that exists already as its own (create-or-open)
c_register_reuse(t) ==
    /\ pc[t] = "c_register"
    /\ Done(t, "create_service", <<>>, "c_descr")
    /\ reg' = ScmCreateService(reg, service_info(self[t], helper[t])).reg
    /\ hsvc' = [hsvc EXCEPT ![t] = 1]
    /\ UNCHANGED <<env, op, self, mgr, helper, status, result, fault, pre,
                   after, last, cycles, built>>

\* c_register with the registration replacing whatever entry the name has
c_register_overwrite(t) ==
    /\ pc[t] = "c_register"
    /\ Done(t, "create_service", <<>>, "c_descr")
    /\ reg' = ScmCreateService([reg EXCEPT ![Name(t)] = NoEntry],
                               service_info(self[t], helper[t])).reg
    /\ hsvc' = [hsvc EXCEPT ![t] = 1]
    /\ UNCHANGED <<env, op, self, mgr, helper, status, result, fault, pre,
                   after, last, cycles, built>>

\* let service = service_manager.create_service(&service_info, CHANGE_CONFIG)?;
c_register(t) ==
    /\ pc[t] = "c_register"
    /\ LET a == ScmCreateService(reg, service_info(self[t], helper[t]))
       IN IF a.ok
          THEN /\ Done(t, "create_service", <<>>, "c_descr")
               /\ reg' = a.reg
               /\ hsvc' = [hsvc EXCEPT ![t] = 1]
               /\ UNCHANGED <<result, fault>>
          ELSE /\ Raise(t, "create_service", "Platform", "", FALSE)
               /\ UNCHANGED <<reg, hsvc>>
    /\ UNCHANGED <<env, op, self, mgr, helper, status, pre, after, last, cycles, built>>

\* service.set_description(format!("Sombra Service Wrapper on {}", name))?;
c_descr(t) ==
    /\ pc[t] = "c_descr"
    /\ LET a == ScmSetDescription(reg, Name(t), description(self[t]))
       IN IF a.ok
          THEN /\ Done(t, "set_description", <<>>, "c_open")
               /\ reg' = a.reg
               /\ UNCHANGED <<result, fault>>
          ELSE /\ Raise(t, "set_description", "Platform", "", FALSE)
               /\ UNCHANGED reg
    /\ UNCHANGED <<env, op, self, mgr, hsvc, helper, status, pre, after, last, cycles, built>>

\* let service = service_manager.open_service(&self.process_name, START)?;
\* the first Service value is shadowed, not dropped: both handles stay open
c_open(t) ==
    /\ pc[t] = "c_open"
    /\ IF ScmOpenService(reg, Name(t)).ok
       THEN /\ Done(t, "open_service", <<>>, "c_start")
            /\ hsvc' = [hsvc EXCEPT ![t] = @ + 1]
            /\ UNCHANGED <<result, fault>>
       ELSE /\ Raise(t, "open_service", "Platform", "", FALSE)
            /\ UNCHANGED hsvc
    /\ UNCHANGED <<reg, env, op, self, mgr, helper, status, pre, after, last, cycles, built>>

\* service.start(&args)?; Ok(())
c_start(t) ==
    /\ pc[t] = "c_start"
    /\ LET a == ScmStart(reg, Name(t), start_args(self[t]))
       IN IF a.ok
          THEN /\ Done(t, "start", start_args(self[t]), "ret")
               /\ reg' = a.reg
               /\ result' = [result EXCEPT ![t] = Ok]
               /\ UNCHANGED fault
          ELSE /\ Raise(t, "start", "Platform", "", FALSE)
               /\ UNCHANGED reg
    /\ UNCHANGED <<env, op, self, mgr, hsvc, helper, status, pre, after, last, cycles, built>>

create(t) ==
    \/ c_connect(t)
    \/ Fault(t, "c_connect", "connect")
    \/ c_env(t)
    \/ c_resolve(t)
    \/ c_register(t)
    \/ Fault(t, "c_register", "create_service")
    \/ c_descr(t)
    \/ Fault(t, "c_descr", "set_description")
    \/ c_open(t)
    \/ Fault(t, "c_open", "open_service")
    \/ c_start(t)
    \/ Fault(t, "c_start", "start")

(* ------------------------- SombraWindows::delete ----------------------- *)

\* ServiceManager::local_computer(None, CONNECT)?
d_connect(t) ==
    /\ pc[t] = "d_connect"
    /\ Done(t, "connect", <<>>, "d_open")
    /\ mgr' = [mgr EXCEPT ![t] = TRUE]
    /\ UNCHANGED <<reg, env, op, self, hsvc, helper, status, result, fault,
                   pre, after, last, cycles, built>>

\* d_open with a missing entry taken as nothing to do
d_open_noop(t) ==
    /\ pc[t] = "d_open"
    /\ IF ScmOpenService(reg, Name(t)).ok
       THEN /\ Done(t, "open_service", <<>>, "d_query")
            /\ hsvc' = [hsvc EXCEPT ![t] = 1]
            /\ UNCHANGED <<result, fault>>
       ELSE /\ Done(t, "open_service", <<>>, "ret")
            /\ result' = [result EXCEPT ![t] = Ok]
            /\ UNCHANGED <<hsvc, fault>>
    /\ UNCHANGED <<reg, env, op, self, mgr, helper, status, pre, after, last,
                   cycles, built>>

\* service_manager.open_service(&self.process_name, QUERY_STATUS|STOP|DELETE)?
d_open(t) ==
    /\ pc[t] = "d_open"
    /\ IF ScmOpenService(reg, Name(t)).ok
       THEN /\ Done(t, "open_service", <<>>, "d_query")
            /\ hsvc' = [hsvc EXCEPT ![t] = 1]
            /\ UNCHANGED <<result, fault>>
       ELSE /\ Raise(t, "open_service", "Platform", "", FALSE)
            /\ UNCHANGED hsvc
    /\ UNCHANGED <<reg, env, op, self, mgr, helper, status, pre, after, last, cycles, built>>

\* d_query with the test of the state inverted
d_query_inverted(t) ==
    /\ pc[t] = "d_query"
    /\ status' = [status EXCEPT ![t] = ScmQueryStatus(reg, Name(t))]
    /\ Done(t, "query_status", <<>>,
            IF status'[t] = "Stopped" THEN "d_stop" ELSE "d_delete")
    /\ UNCHANGED <<reg, env, op, self, mgr, hsvc, helper, result, fault, pre,
                   after, last, cycles, built>>

\* d_query with the stop branch never taken
d_query_nostop(t) ==
    /\ pc[t] = "d_query"
    /\ status' = [status EXCEPT ![t] = ScmQueryStatus(reg, Name(t))]
    /\ Done(t, "query_status", <<>>, "d_delete")
    /\ UNCHANGED <<reg, env, op, self, mgr, hsvc, helper, result, fault, pre,
                   after, last, cycles, built>>

\* let service_status = service.query_status()?;
\* if service_status.current_state != ServiceState::Stopped { .. }
d_query(t) ==
    /\ pc[t] = "d_query"
    /\ status' = [status EXCEPT ![t] = ScmQueryStatus(reg, Name(t))]
    /\ Done(t, "query_status", <<>>,
            IF status'[t] # "Stopped" THEN "d_stop" ELSE "d_delete")
    /\ UNCHANGED <<reg, env, op, self, mgr, hsvc, helper, result, fault, pre,
                   after, last, cycles, built>>

\* d_stop with the delete request following the stop at once, no sleep
d_stop_nosleep(t) ==
    /\ pc[t] = "d_stop"
    /\ LET a == ScmStop(reg, Name(t))
       IN IF a.ok
          THEN /\ Done(t, "stop", <<>>, "d_delete")
               /\ reg' = a.reg
               /\ UNCHANGED <<result, fault>>
          ELSE /\ Raise(t, "stop", "Platform", "", FALSE)
               /\ UNCHANGED reg
    /\ UNCHANGED <<env, op, self, mgr, hsvc, helper, status, pre, after, last, cycles, built>>

\* service.stop()?;
d_stop(t) ==
    /\ pc[t] = "d_stop"
    /\ LET a == ScmStop(reg, Name(t))
       IN IF a.ok
          THEN /\ Done(t, "stop", <<>>, "d_sleep")
               /\ reg' = a.reg
               /\ UNCHANGED <<result, fault>>
          ELSE /\ Raise(t, "stop", "Platform", "", FALSE)
               /\ UNCHANGED reg
    /\ UNCHANGED <<env, op, self, mgr, hsvc, helper, status, pre, after, last, cycles, built>>

\* d_sleep that goes on to the delete request only if the service has stopped
d_sleep_confirm(t) ==
    /\ pc[t] = "d_sleep"
    /\ IF reg[Name(t)].state = "Stopped"
       THEN /\ pc' = [pc EXCEPT ![t] = "d_delete"]
            /\ UNCHANGED result
       ELSE /\ pc' = [pc EXCEPT ![t] = "ret"]
            /\ result' = [result EXCEPT ![t] = Err("Platform", "")]
    /\ UNCHANGED <<reg, env, op, self, mgr, hsvc, helper, status,
                   reqs, fault, pre, after, last, cycles, built>>

\* std::thread::sleep(Duration::from_millis(100))
d_sleep(t) ==
    /\ pc[t] = "d_sleep"
    /\ pc' = [pc EXCEPT ![t] = "d_delete"]
    /\ UNCHANGED <<reg, env, op, self, mgr, hsvc, helper, status, result,
                   reqs, fault, pre, after, last, cycles, built>>

\* service.delete()?; Ok(())
d_delete(t) ==
    /\ pc[t] = "d_delete"
    /\ LET a == ScmDelete(reg, Name(t))
       IN IF a.ok
          THEN /\ Done(t, "delete", <<>>, "ret")
               /\ reg' = a.reg
               /\ result' = [result EXCEPT ![t] = Ok]
               /\ UNCHANGED fault
          ELSE /\ Raise(t, "delete", "Platform", "", FALSE)
               /\ UNCHANGED reg
    /\ UNCHANGED <<env, op, self, mgr, hsvc, helper, status, pre, after, last, cycles, built>>

delete(t) ==
    \/ d_connect(t)
    \/ Fault(t, "d_connect", "connect")
    \/ d_open(t)
    \/ Fault(t, "d_open", "open_service")
    \/ d_query(t)
    \/ Fault(t, "d_query", "query_status")
    \/ d_stop(t)
    \/ Fault(t, "d_stop", "stop")
    \/ d_sleep(t)
    \/ d_delete(t)
    \/ Fault(t, "d_delete", "delete")

(* ------------------------- the platform's own step --------------------- *)

\* a service that was told to stop has stopped
Settle(n) ==
    /\ reg[n] # NoEntry
    /\ reg[n].state = "StopPending"
    /\ reg' = Reap([reg EXCEPT ![n].state = "Stopped"], hsvc, self)
    /\ UNCHANGED <<env, pc, op, self, mgr, hsvc, helper, status, result, reqs,
                   fault, pre, after, last, cycles, built>>

(* -------------------------------- build -------------------------------- *)

\* the caller invokes SombraWindows::build(name, path, args)
Build(t, name, path, args) ==
    /\ pc[t] \in {"idle", "done"}
    /\ built' = [built EXCEPT ![t] = [name |-> name, path |-> path, args |-> args,
                                      out |-> build(name, path, args)]]
    /\ UNCHANGED <<reg, env, pc, op, self, mgr, hsvc, helper, status, result,
                   reqs, fault, pre, after, last, cycles>>

(* --------------------------- specifications ---------------------------- *)

Main == "t1"

Run(t) ==
    \/ \E d \in Descriptors : Call(t, "create", d)
    \/ \E d \in Descriptors : Call(t, "delete", d)
    \/ create(t)
    \/ delete(t)
    \/ Return(t)

\* one caller, one call at a time
Next ==
    \/ Run(Main)
    \/ \E n \in Names : Settle(n)

Spec == Init /\ [][Next]_vars

\* callers on several threads, not synchronized; each thread makes one call
RunOnce(t) ==
    \/ \E d \in Descriptors : pc[t] = "idle" /\ Call(t, "create", d)
    \/ \E d \in Descriptors : pc[t] = "idle" /\ Call(t, "delete", d)
    \/ create(t)
    \/ delete(t)
    \/ Return(t)

NextConc ==
    \/ \E t \in Threads : RunOnce(t)
    \/ \E n \in Names : Settle(n)

SpecConc == Init /\ [][NextConc]_vars

\* build on its own, over every name, path and argument list
NextBuild ==
    \E t \in Threads, n \in Names, p \in BuildPaths, a \in ArgLists : Build(t, n, p, a)

SpecBuild == Init /\ [][NextBuild]_vars

(* ------------------------------ claims --------------------------------- *)

\* the call o of thread t has just returned
Returned(t, o) == pc[t] = "done" /\ op[t] = o

\* a step of the call thread t is in (a request, the sleep or the return)
StepOf(t) == pc[t] \notin {"idle", "done"} /\ pc'[t] # pc[t]

\* the helper location the variable names does not resolve
HelperMissing == env_var(env).ok /\ ~canonicalize(env).ok

\* no request of the call of t failed: neither a request to the service
\* manager nor the file-system lookup of the helper
NoRequestFailed(t) == ~fault[t] /\ ~(result[t] # None /\ ~result[t].ok
                                     /\ result[t].err.kind \in {"Io", "Config"})

Gone(n) == reg[n] = NoEntry

\* the entry is marked for deletion and waits for its service to stop
Lingering(n) ==
    reg[n] # NoEntry /\ reg[n].marked /\ reg[n].state = "StopPending"

LiveBefore(t) == pre[t].registered /\ ~pre[t].marked

\* C2: a name never gets a second registration while it has an entry (a
\* registration request is served only for a name without one), and a create
\* on a name with a live registration returns an error without registering,
\* whatever path and arguments its descriptor has.
C2_Uniqueness ==
    /\ [][\A t \in Threads :
            pc[t] = "c_register" /\ pc'[t] = "c_descr" => reg[Name(t)] = NoEntry]_vars
    /\ [](\A t \in Threads :
            Returned(t, "create") /\ LiveBefore(t)
                => ~result[t].ok /\ ~Served(t, "create_service"))

\* a create on a live name, with a descriptor whose arguments differ from
\* those the service was started with, has returned after asking to register
C2_Witness ==
    \E t \in Threads :
        /\ Returned(t, "create") /\ LiveBefore(t)
        /\ Issued(t, "create_service") /\ ~fault[t]
        /\ reg[Name(t)] # NoEntry /\ reg[Name(t)].state = "Running"
        /\ reg[Name(t)].args # start_args(self[t])

\* C3: a delete on a name without an entry returns an error after the open
\* request, issues no query, stop or delete request, and no step of it
\* changes the registry; the delete that follows a successful delete
\* returns an error in every case.
C3_DeleteMissing ==
    /\ [](\A t \in Threads :
            /\ Returned(t, "delete") /\ ~pre[t].registered
                => /\ ~result[t].ok
                   /\ ~Issued(t, "query_status")
                   /\ ~Issued(t, "stop")
                   /\ ~Issued(t, "delete")
            /\ Returned(t, "delete") /\ after[t].last = "delete_ok"
                => ~result[t].ok)
    /\ [][\A t \in Threads :
            op[t] = "delete" /\ ~pre[t].registered /\ StepOf(t) => reg' = reg]_vars

\* the second of two deletes (the first succeeded and its entry is gone) has
\* failed at the open request
C3_Witness ==
    \E t \in Threads :
        /\ Returned(t, "delete") /\ ~pre[t].registered
        /\ after[t].last = "delete_ok"
        /\ ~fault[t] /\ ~result[t].ok /\ Issued(t, "open_service")

Phase(e) ==
    IF e = NoEntry THEN "Unregistered"
    ELSE IF e.state \in {"Running", "StopPending"} THEN "Running"
    ELSE IF e.args = <<>> THEN "Registered"
    ELSE "Stopped"

\* the moves of the lifecycle; an entry that was never started counts as
\* stopped and may be unregistered directly
Lifecycle ==
    {<<"Unregistered", "Registered">>, <<"Registered", "Running">>,
     <<"Running", "Stopped">>, <<"Stopped", "Unregistered">>,
     <<"Registered", "Unregistered">>}

\* C5: every change a step of create or delete makes to the lifecycle phase
\* of an entry is a move of Unregistered -> Registered -> Running -> Stopped
\* -> Unregistered; a start request is only issued by a call that has
\* registered the entry, on an entry that exists; and no entry leaves the
\* registry in the Running state.
C5_Lifecycle ==
    /\ [][\A t \in Threads : StepOf(t) =>
            \A n \in Names :
                \/ Phase(reg'[n]) = Phase(reg[n])
                \/ <<Phase(reg[n]), Phase(reg'[n])>> \in Lifecycle]_vars
    /\ [](\A t \in Threads :
            Issued(t, "start")
                => Served(t, "create_service") /\ reg[self[t].process_name] # NoEntry)
    /\ [][\A n \in Names :
            reg[n] # NoEntry /\ reg'[n] = NoEntry => reg[n].state # "Running"]_vars

\* an entry that ran and was stopped has been unregistered by the return of
\* a delete: the whole path was walked
C5_Witness ==
    \E t \in Threads :
        /\ Returned(t, "delete") /\ result[t].ok
        /\ pre[t].state = "Running" /\ Gone(self[t].process_name)

\* C6: no step of a create or delete on one name changes the entry of
\* another name; while another name is live, a create on an unregistered
\* name and the delete of a created name succeed as they do alone, and leave
\* the other service running.
C6_IndependentNames ==
    /\ [][\A t \in Threads : StepOf(t) =>
            \A n \in Names \ {self[t].process_name} : reg'[n] = reg[n]]_vars
    /\ [](\A t \in Threads : \A n \in Names \ {self[t].process_name} :
            /\ pc[t] = "done" /\ last[n] = "create_ok"
                => reg[n] # NoEntry /\ reg[n].state = "Running" /\ ~reg[n].marked
            /\ Returned(t, "create") /\ last[n] = "create_ok"
               /\ ~pre[t].registered /\ NoRequestFailed(t)
                => result[t].ok
            /\ Returned(t, "delete") /\ last[n] = "create_ok"
               /\ after[t].last = "create_ok" /\ NoRequestFailed(t)
                => result[t].ok)

\* both names were created; the first has been deleted with success while
\* the second is still live
C6_Witness ==
    \E t \in Threads :
        /\ Returned(t, "delete") /\ result[t].ok
        /\ self[t].process_name = "tcp_echo30222"
        /\ after[t].last = "create_ok"
        /\ last["tcp_echo30223"] = "create_ok"
        /\ reg["tcp_echo30223"] # NoEntry
        /\ reg["tcp_echo30223"].state = "Running"

\* C7: a step of a create that has not registered its name leaves an entry
\* the name already has exactly as it is, and a create on a live name issues
\* neither a set-description nor an open nor a start request.
C7_NoOverwrite ==
    /\ [][\A t \in Threads :
            op[t] = "create" /\ StepOf(t) /\ ~Served(t, "create_service")
            /\ reg[self[t].process_name] # NoEntry
                => reg'[self[t].process_name] = reg[self[t].process_name]]_vars
    /\ [](\A t \in Threads :
            Returned(t, "create") /\ LiveBefore(t)
                => /\ ~Issued(t, "set_description")
                   /\ ~Issued(t, "open_service")
                   /\ ~Issued(t, "start"))

\* a create on a name whose service runs with other arguments has failed at
\* the registration request; the running service keeps its arguments
C7_Witness ==
    \E t \in Threads :
        /\ Returned(t, "create") /\ LiveBefore(t) /\ ~fault[t]
        /\ Issued(t, "create_service") /\ ~result[t].ok
        /\ pre[t].state = "Running"
        /\ reg[self[t].process_name] # NoEntry
        /\ reg[self[t].process_name].state = "Running"
        /\ reg[self[t].process_name].args # start_args(self[t])
        /\ self[t].process_args # <<>>

\* some request of the call failed
SomeFailed(t) == \E i \in 1..Len(reqs[t]) : ~reqs[t][i].ok

\* C8: when the registration request of a create has succeeded and a later
\* request of it fails, create returns an error and leaves the entry
\* registered as it made it, unmarked and not running; the delete that
\* follows succeeds, when no request of it fails, and the entry is gone.
C8_NoRollback ==
    \A t \in Threads :
        /\ Returned(t, "create") /\ Served(t, "create_service") /\ SomeFailed(t)
            => /\ ~result[t].ok
               /\ reg[self[t].process_name] # NoEntry
               /\ reg[self[t].process_name].state = "Stopped"
               /\ ~reg[self[t].process_name].marked
               /\ reg[self[t].process_name].info.name = self[t].process_name
        /\ Returned(t, "delete") /\ after[t].last = "create_partial"
           /\ NoRequestFailed(t)
            => result[t].ok /\ Gone(self[t].process_name)

\* the delete after a create that registered its name and then failed has
\* succeeded and removed the entry
C8_Witness ==
    \E t \in Threads :
        /\ Returned(t, "delete") /\ after[t].last = "create_partial"
        /\ result[t].ok /\ Gone(self[t].process_name)

\* C9: a create whose connection to the manager fails, or whose helper
\* location does not resolve, returns an error (an I/O error carrying the
\* location, in the second case) without submitting a registration request,
\* and no step of a create that has not submitted one changes the registry.
C9_NoPartialState ==
    /\ [](\A t \in Threads :
            /\ Returned(t, "create") /\ ~reqs[t][1].ok
                => ~result[t].ok /\ Len(reqs[t]) = 1
            /\ Returned(t, "create") /\ reqs[t][1].ok /\ HelperMissing
                => /\ result[t] = Err("Io", env)
                   /\ ~Issued(t, "create_service"))
    /\ [][\A t \in Threads :
            op[t] = "create" /\ StepOf(t) /\ ~Issued(t, "create_service")'
                => reg' = reg]_vars

\* a create on an unregistered name has failed at the resolution of the
\* helper location, and the name is still unregistered
C9_Witness ==
    \E t \in Threads :
        /\ Returned(t, "create") /\ HelperMissing
        /\ result[t] # None /\ ~result[t].ok /\ result[t].err.kind = "Io"
        /\ ~pre[t].registered /\ Gone(self[t].process_name)

BuildContract(b) ==
    IF b.path \in Files
    THEN /\ b.out.ok
         /\ b.out.val.process_path = Cwd \o b.path
         /\ b.out.val.process_name = b.name
         /\ b.out.val.process_args = b.args
    ELSE /\ ~b.out.ok
         /\ b.out.err.kind = "Io"
         /\ b.out.err.content = b.path

\* C15: build returns an Io error that carries the path as it was given when
\* the path does not resolve, and otherwise a descriptor with the canonical
\* path, the name and the arguments unchanged; a build step leaves the
\* service manager alone: no request, no handle, no change to the registry.
C15_BuildFailsFast ==
    /\ [](\A t \in Threads : built[t] # None => BuildContract(built[t]))
    /\ [][\A t \in Threads : built'[t] # built[t] =>
            UNCHANGED <<reg, reqs, mgr, hsvc, env>>]_vars

\* one build has failed on a missing path, another returned a descriptor
\* with arguments
C15_Witness ==
    /\ built["t1"] # None /\ ~built["t1"].out.ok /\ built["t1"].path = "missing.exe"
    /\ built["t2"] # None /\ built["t2"].out.ok /\ built["t2"].args # <<>>

\* the successful request rq in the log of t's call, or None
RequestOf(t, rq) ==
    IF \E i \in 1..Len(reqs[t]) : reqs[t][i].rq = rq /\ reqs[t][i].ok
    THEN reqs[t][CHOOSE i \in 1..Len(reqs[t]) : reqs[t][i].rq = rq /\ reqs[t][i].ok]
    ELSE None

\* C11: the start request of create carries the canonical target path
\* followed by the descriptor's arguments in their order (the path alone when
\* there are none), and that is what the service is started with; the entry
\* create registers has no launch arguments and the canonical helper location
\* as its executable path.
C11_ArgPassthrough ==
    \A t \in Threads : op[t] = "create" =>
        /\ RequestOf(t, "start") # None =>
              /\ self[t].process_path \in {Cwd \o p : p \in Files}
              /\ RequestOf(t, "start").args
                     = <<self[t].process_path>> \o self[t].process_args
              /\ reg[Name(t)].args = RequestOf(t, "start").args
        /\ RequestOf(t, "create_service") # None =>
              /\ reg[Name(t)].info.launch_arguments = <<>>
              /\ reg[Name(t)].info.executable_path = Cwd \o env
              /\ reg[Name(t)].info.name = Name(t)

\* a create with two arguments has returned success: the service runs with
\* the path and the two arguments
C11_Witness ==
    \E t \in Threads :
        /\ Returned(t, "create") /\ result[t].ok
        /\ self[t].process_args = <<"-p", "30223">>
        /\ reg[Name(t)].args = <<Cwd \o "executables/tcp_echo.exe", "-p", "30223">>
        /\ reg[Name(t)].info.launch_arguments = <<>>

\* the names of the requests in the log of t's call, in order
Requested(t) == [i \in 1..Len(reqs[t]) |-> reqs[t][i].rq]

\* the call of t ended on the lookup of the helper location, not on a request
\* to the service manager
LookupFailed(t) ==
    result[t] # None /\ ~result[t].ok /\ result[t].err.kind \in {"Io", "Config"}

\* C12: a call returns success exactly when every request it issued succeeded
\* (the lookup of the helper location counted with the requests); a failed
\* request is the last one of its call and the call returns its error; no
\* request is issued twice in one call.
C12_FailFast ==
    \A t \in Threads : op[t] \in {"create", "delete"} =>
        /\ \A i \in 1..Len(reqs[t]) :
              ~reqs[t][i].ok =>
                  /\ i = Len(reqs[t])
                  /\ pc[t] \in {"ret", "done"}
                  /\ ~result[t].ok /\ result[t].err.kind = "Platform"
        /\ \A i, j \in 1..Len(reqs[t]) : i # j => reqs[t][i].rq # reqs[t][j].rq
        /\ LookupFailed(t) =>
              op[t] = "create" /\ pc[t] \in {"ret", "done"} /\ Requested(t) = <<"connect">>
        /\ pc[t] \in {"ret", "done"} =>
              /\ result[t] # None
              /\ result[t].ok <=>
                    (\A i \in 1..Len(reqs[t]) : reqs[t][i].ok) /\ ~LookupFailed(t)
              /\ result[t].ok /\ op[t] = "create" =>
                    Requested(t) = <<"connect", "create_service", "set_description",
                                     "open_service", "start">>
              /\ result[t].ok /\ op[t] = "delete" =>
                    Requested(t) \in {<<"connect", "open_service", "query_status",
                                        "stop", "delete">>,
                                      <<"connect", "open_service", "query_status",
                                        "delete">>}

\* a create has returned the error of its start request, the fifth and last
\* request it issued
C12_Witness ==
    \E t \in Threads :
        /\ Returned(t, "create") /\ ~result[t].ok
        /\ Len(reqs[t]) = 5
        /\ reqs[t][5] = Req("start", FALSE, <<>>)
        /\ \A i \in 1..4 : reqs[t][i].ok

\* two threads are in, or have finished, a create on one name
BothCreate(t, u) ==
    /\ t # u
    /\ op[t] = "create" /\ op[u] = "create"
    /\ Name(t) = Name(u)

\* C13: of two create calls on one name by different threads at most one
\* gets past the registration request; when both issue it and neither meets
\* an outside failure, one is served and the other is refused and returns the
\* error; the registry holds at most the one entry the served call created.
C13_ConcurrentCreate ==
    \A t, u \in Threads : BothCreate(t, u) =>
        /\ ~(Served(t, "create_service") /\ Served(u, "create_service"))
        /\ Issued(t, "create_service") /\ Issued(u, "create_service")
           /\ ~fault[t] /\ ~fault[u]
           => /\ Served(t, "create_service") \/ Served(u, "create_service")
              /\ \A w \in {t, u} : ~Served(w, "create_service") =>
                    /\ reqs[w][Len(reqs[w])] = Req("create_service", FALSE, <<>>)
                    /\ pc[w] \in {"ret", "done"} /\ ~result[w].ok
        /\ Served(t, "create_service") /\ reg[Name(t)] # NoEntry =>
              reg[Name(t)].args \in {<<>>, start_args(self[t])}

\* one create is past its registration and still running when the other is
\* refused at registration
C13_Witness ==
    \E t, u \in Threads :
        /\ BothCreate(t, u)
        /\ pc[t] = "c_descr" /\ Served(t, "create_service")
        /\ pc[u] = "ret" /\ ~fault[u]
        /\ reqs[u] = <<Req("connect", TRUE, <<>>), Req("create_service", FALSE, <<>>)>>

\* the Service handles the requests of t's call have returned so far
Opened(t) ==
    Cardinality({i \in 1..Len(reqs[t]) :
                    reqs[t][i].ok /\ reqs[t][i].rq \in {"create_service", "open_service"}})

\* C14: a thread that is not in a call holds no ServiceManager handle and no
\* Service handle, whether its last call returned success or an error; inside
\* a call it holds the handles its requests have returned, and no others.
C14_HandleRelease ==
    \A t \in Threads :
        /\ pc[t] \in {"idle", "done"} => ~mgr[t] /\ hsvc[t] = 0
        /\ pc[t] \notin {"idle", "done"} =>
              /\ mgr[t] <=> Served(t, "connect")
              /\ hsvc[t] = Opened(t)

\* a create that held both of its Service handles has returned an error,
\* and no handle is open
C14_Witness ==
    \E t \in Threads :
        /\ Returned(t, "create") /\ ~result[t].ok
        /\ Opened(t) = 2
        /\ \A u \in Threads : ~mgr[u] /\ hsvc[u] = 0

\* where the request rq stands in the log of t's call
Pos(t, rq) == CHOOSE i \in 1..Len(reqs[t]) : reqs[t][i].rq = rq

\* within a delete call: what the log of requests and the queried state show
DeleteOrder(t) ==
    /\ Issued(t, "stop") =>
          /\ Served(t, "query_status") /\ Pos(t, "query_status") < Pos(t, "stop")
          /\ status[t] \in {"Running", "StopPending"}
    /\ Issued(t, "delete") =>
          /\ Served(t, "query_status") /\ Pos(t, "query_status") < Pos(t, "delete")
          /\ Issued(t, "stop") <=> status[t] # "Stopped"
          /\ Issued(t, "stop") => Served(t, "stop") /\ Pos(t, "stop") < Pos(t, "delete")
    /\ pc[t] = "ret" /\ Served(t, "query_status") =>
          (Issued(t, "stop") <=> status[t] # "Stopped")

\* within a delete call: where the sleep stands among the steps
DeleteSteps(t) ==
    /\ pc'[t] = "d_stop" /\ pc[t] # "d_stop" =>
          pc[t] = "d_query" /\ status'[t] # "Stopped"
    /\ pc'[t] = "d_sleep" /\ pc[t] # "d_sleep" =>
          pc[t] = "d_stop" /\ status[t] # "Stopped" /\ Len(reqs'[t]) = Len(reqs[t]) + 1
          /\ reqs'[t][Len(reqs'[t])] = Req("stop", TRUE, <<>>)
    /\ pc'[t] = "d_delete" /\ pc[t] # "d_delete" =>
          \/ pc[t] = "d_sleep" /\ Served(t, "stop")
          \/ pc[t] = "d_query" /\ status'[t] = "Stopped" /\ ~Issued(t, "stop")
    /\ Len(reqs'[t]) = Len(reqs[t]) + 1 /\ reqs'[t][Len(reqs'[t])].rq = "delete" =>
          pc[t] = "d_delete"

\* C16: in a delete call the status query precedes a stop request; a stop is
\* requested exactly when the queried state is not Stopped; the delete
\* request comes after the query and, when a stop was requested, after the
\* stop and the sleep that follows it; with the state queried Stopped there
\* is no stop and no sleep.
C16_StopBeforeDelete ==
    /\ [](\A t \in Threads : op[t] = "delete" /\ pc[t] \notin {"idle", "done"} =>
              DeleteOrder(t))
    /\ [][\A t \in Threads : op[t] = "delete" /\ op'[t] = "delete" =>
              DeleteSteps(t)]_vars

\* a delete that found the service running has issued query, stop and delete
\* in that order and is about to return
C16_Witness ==
    \E t \in Threads :
        /\ op[t] = "delete" /\ pc[t] = "ret" /\ result[t].ok
        /\ status[t] = "Running"
        /\ Requested(t) = <<"connect", "open_service", "query_status", "stop", "delete">>

\* C17 as stated: a delete that has opened the entry and queried its status
\* issues a delete request (read for calls none of whose requests met an
\* outside failure).
C17_DeleteAlways ==
    \A t \in Threads :
        Returned(t, "delete") /\ Served(t, "query_status") /\ ~fault[t] =>
            Issued(t, "delete")

\* C17: a delete that has queried the status issues its delete request exactly
\* when the stop request, if one was issued, reported success (a stop request
\* that reports an error ends the call); after a successful stop and the
\* sleep the delete request is issued whatever state the service is in.
C17_DeleteAfterStop ==
    /\ [](\A t \in Threads : Returned(t, "delete") /\ Served(t, "query_status") =>
              (Issued(t, "delete") <=> (Issued(t, "stop") => Served(t, "stop"))))
    /\ [][\A t \in Threads : op[t] = "delete" /\ pc'[t] # pc[t] =>
              /\ pc[t] = "d_sleep" => pc'[t] = "d_delete"
              /\ pc[t] = "d_delete" =>
                    /\ Len(reqs'[t]) = Len(reqs[t]) + 1
                    /\ reqs'[t][Len(reqs'[t])].rq = "delete"]_vars

\* a delete has returned success with its stop served and its delete request
\* issued while the service had not reached Stopped
C17_Witness ==
    \E t \in Threads :
        /\ Returned(t, "delete") /\ result[t].ok
        /\ Served(t, "stop") /\ Served(t, "delete")
        /\ Lingering(Name(t))

\* the delete of t has returned an error after it had opened the entry
FailedAfterOpen(t) ==
    Returned(t, "delete") /\ Served(t, "open_service") /\ ~result[t].ok

C19_SetOnce ==
    [][/\ env # Unset => env' = env
       /\ env' # env =>
             /\ env' = DefaultHelper
             /\ \E t \in Threads : op[t] = "create" /\ pc[t] = "c_env" /\ StepOf(t)
       /\ \A t \in Threads : op[t] = "delete" /\ StepOf(t) => env' = env]_vars

\* a create by t and a delete by u on one name have both returned success
RaceOn(t, u) ==
    /\ t # u
    /\ Returned(t, "create") /\ result[t].ok
    /\ Returned(u, "delete") /\ result[u].ok
    /\ Name(t) = Name(u)

\* C20 as stated: when a create and a delete that ran concurrently on one
\* name have both returned success, the name has no entry and no running
\* service (an entry that only waits for its service to finish stopping is
\* counted as gone).
C20_RaceGone ==
    \A t, u \in Threads : RaceOn(t, u) => Gone(Name(t)) \/ Lingering(Name(t))

\* C20: when a create and a delete on one name have both returned success,
\* the entry is marked for deletion or gone.  If the delete issued a stop, the
\* entry is gone or waits for the service to finish stopping.  If it issued
\* none, its status query came before the create's start: the delete request
\* was issued against a service that was running by then, and the service
\* stays running with its entry marked.  A delete skips the stop exactly when
\* the state it queried was Stopped.
C20_RaceOutcome ==
    /\ \A t, u \in Threads : RaceOn(t, u) =>
          /\ Gone(Name(t)) \/ reg[Name(t)].marked
          /\ Served(u, "stop") => Gone(Name(t)) \/ Lingering(Name(t))
          /\ ~Issued(u, "stop") =>
                /\ reg[Name(t)] # NoEntry
                /\ reg[Name(t)].marked
                /\ reg[Name(t)].state = "Running"
    /\ \A u \in Threads : op[u] = "delete" /\ pc[u] = "d_delete" =>
          (Issued(u, "stop") <=> status[u] # "Stopped")

\* both calls have returned success and the service runs, its entry marked:
\* the delete queried the state before the create started the service
C20_Witness ==
    \E t, u \in Threads :
        /\ RaceOn(t, u)
        /\ ~Issued(u, "stop")
        /\ reg[Name(t)] # NoEntry /\ reg[Name(t)].marked
        /\ reg[Name(t)].state = "Running"

=============================================================================
